---- MODULE Spec2Model ----
(***************************************************************************)
(* quic::ServerHandshake (quic/server/handshake/ServerHandshake.cpp): the  *)
(* server-side driver that feeds buffered handshake bytes to the TLS       *)
(* engine and applies the engine's action batches.                         *)
(*                                                                         *)
(* The controller's fields are the variables.  Calls are modelled with an  *)
(* explicit call stack of frames, because the code is re-entrant: an       *)
(* immediate batch is applied inside the drain loop, processActions calls  *)
(* the drain loop again, and the application callback may call back into   *)
(* the public operations.  A deferred batch (folly::Future) completes on   *)
(* the connection's serialized execution context, i.e. when the stack is   *)
(* empty.                                                                   *)
(*                                                                         *)
(* The TLS engine and the subclass hooks (processAccept, processSocketData,*)
(* processPendingCryptoEvent, processCryptoActions, ...) are not part of   *)
(* ServerHandshake.cpp; they are modelled from the design document and     *)
(* are nondeterministic where the engine decides.  Not modelled: phase_,   *)
(* transportParams_, executor_ and the connection's crypto streams         *)
(* (writeDataToStream), which no operation of this file reads back.        *)
(***************************************************************************)
EXTENDS Integers, Sequences, FiniteSets, TLC

\* ------------------------------------------------------------------ bounds
MaxBytes == 2        \* handshake bytes fed in one behaviour of the "feed" workload
MaxCiphers == 1      \* cipher pairs derived in one behaviour of the "keys" workload
MaxPending == 1      \* crypto events queued at once in the "feed" and "late" workloads
MaxLateBytes == 1    \* handshake bytes fed in one behaviour of the "late" workload

\* ------------------------------------------------------------------ values
Initial == "Initial"
Handshake == "Handshake"
EarlyData == "EarlyData"
AppData == "AppData"
EncryptionLevel == {Initial, Handshake, EarlyData, AppData}

CipherKind ==
    {"HandshakeRead", "HandshakeWrite", "OneRttRead", "OneRttWrite", "ZeroRttRead"}

\* the private cipher slots, each with its getter
GetterSlots ==
    {"handshakeReadCipher", "oneRttWriteCipher", "oneRttReadCipher",
     "zeroRttReadCipher", "oneRttReadHeaderCipher", "oneRttWriteHeaderCipher",
     "handshakeReadHeaderCipher", "zeroRttReadHeaderCipher"}
\* the two slots owned by the connection object
ConnSlots == {"conn.handshakeWriteCipher", "conn.handshakeWriteHeaderCipher"}
Slots == GetterSlots \cup ConnSlots

Empty == 0           \* a null unique_ptr

NoError == [msg |-> "", code |-> "NONE"]          \* folly::none
PendingError ==
    [msg |-> "Processing action while pending", code |-> "INTERNAL_ERROR"]
EngineError == [msg |-> "engine alert", code |-> "CRYPTO_ERROR"]

BufNames == {"initial", "handshake", "appData"}

VARIABLES
    workload,                 \* what the environment supplies: "feed", "keys" or "late"
    initialized,              \* initialize() has run
    callback,                 \* callback_ != nullptr
    inHandshakeStack,         \* inHandshakeStack_
    inProcessPendingEvents,   \* inProcessPendingEvents_
    actionGuard,              \* actionGuard_ holds a guard on conn_
    error,                    \* error_
    waitForData,              \* waitForData_
    handshakeEventAvailable,  \* handshakeEventAvailable_
    handshakeDone,            \* handshakeDone_
    ciphers,                  \* the cipher slots: slot -> cipher object or Empty
    initialReadBuf,           \* initialReadBuf_
    handshakeReadBuf,         \* handshakeReadBuf_
    appDataReadBuf,           \* appDataReadBuf_
    pendingEvents,            \* queued crypto events (session tickets to write)
    readLevel,                \* the engine's expected read encryption level
    futures,                  \* deferred batches started and not yet completed
    stack,                    \* the call stack, innermost frame last
    nextByte,                 \* bytes fed so far + 1
    nextCipher,               \* cipher pairs built so far + 1
    fed,                      \* history: per buffer, the bytes appended, in order
    consumed,                 \* history: per buffer, the bytes the engine took
    returned,                 \* history: per getter, the cipher objects handed out
    notified,                 \* history: the callback ran since the event flag was cleared
    batchCause,               \* history: the call whose input the batch in flight processes
    lateBufs,                 \* history, kept in the "late" workload: buffers holding
                              \* bytes fed while a deferred batch was in flight and not
                              \* handed to the engine since
    nestedBufs,               \* history, kept in the "late" workload: buffers holding
                              \* bytes fed while the drain loop was executing, until
                              \* that loop's next iteration
    acceptSince               \* history: a batch started by accept was in flight when
                              \* bytes were last fed while the drain loop was
                              \* executing, or accept has started one since

ctl == <<workload, initialized, callback, inHandshakeStack, inProcessPendingEvents,
         actionGuard, error, waitForData, handshakeEventAvailable, handshakeDone,
         ciphers>>
bufs == <<initialReadBuf, handshakeReadBuf, appDataReadBuf>>
eng == <<pendingEvents, readLevel, futures, nextCipher>>
hist == <<nextByte, fed, consumed, returned, notified, batchCause, lateBufs,
         nestedBufs, acceptSince>>
vars == <<ctl, bufs, eng, stack, hist>>

\* The workloads: the transport feeds handshake bytes and writes session
\* tickets ("feed"), the engine derives keys on accept and on empty reads
\* ("keys"), or the transport feeds bytes and the bytes that arrive while a
\* deferred batch is in flight are followed ("late").
ByteBudget ==
    CASE workload = "feed" -> MaxBytes
      [] workload = "late" -> MaxLateBytes
      [] OTHER -> 0
PendingBudget == IF workload \in {"feed", "late"} THEN MaxPending ELSE 0
CipherBudget == IF workload = "keys" THEN MaxCiphers ELSE 0

\* ------------------------------------------------------------------ helpers
Frame(fn, pc, mustBlock) == [fn |-> fn, pc |-> pc, mustBlock |-> mustBlock]

Top == stack[Len(stack)]

Pop(stk) == SubSeq(stk, 1, Len(stk) - 1)

SetTopPc(stk, pc) == [stk EXCEPT ![Len(stk)].pc = pc]

RankOf(level) ==
    CASE level = Initial -> 0
      [] level = EarlyData -> 1
      [] level = Handshake -> 2
      [] OTHER -> 3

\* The fields an engine action or onError can change, gathered in one record.
Cur ==
    [error |-> error, waitForData |-> waitForData,
     avail |-> handshakeEventAvailable, handshakeDone |-> handshakeDone,
     ciphers |-> ciphers, nextCipher |-> nextCipher, readLevel |-> readLevel]

Commit(st) ==
    /\ error' = st.error
    /\ waitForData' = st.waitForData
    /\ handshakeEventAvailable' = st.avail
    /\ handshakeDone' = st.handshakeDone
    /\ ciphers' = st.ciphers
    /\ nextCipher' = st.nextCipher
    /\ readLevel' = st.readLevel

\* handshakeEventAvailable_ = true (lines 162, 166, 271)
FlagEvent(st) == [st EXCEPT !.avail = TRUE]

\* ------------------------------------------------------------------ onError
\* error_ = error (line 161): the value error_ holds after onError(new).
ErrorAfterOnError(old, new) == new

onError(st, e) ==
    FlagEvent([st EXCEPT !.error = ErrorAfterOnError(st.error, e)])

onHandshakeDone(st) == FlagEvent(st)

\* ------------------------------------------------------------------ computeCiphers
\* buildCiphers(secret): a fresh AEAD and a fresh header cipher; the n-th pair
\* built is the pair of objects numbered n.
buildCiphers(n) == [aead |-> n, headerCipher |-> n]

AeadSlot(kind) ==
    CASE kind = "HandshakeRead" -> "handshakeReadCipher"
      [] kind = "HandshakeWrite" -> "conn.handshakeWriteCipher"
      [] kind = "OneRttRead" -> "oneRttReadCipher"
      [] kind = "OneRttWrite" -> "oneRttWriteCipher"
      [] kind = "ZeroRttRead" -> "zeroRttReadCipher"

HeaderSlot(kind) ==
    CASE kind = "HandshakeRead" -> "handshakeReadHeaderCipher"
      [] kind = "HandshakeWrite" -> "conn.handshakeWriteHeaderCipher"
      [] kind = "OneRttRead" -> "oneRttReadHeaderCipher"
      [] kind = "OneRttWrite" -> "oneRttWriteHeaderCipher"
      [] kind = "ZeroRttRead" -> "zeroRttReadHeaderCipher"

computeCiphers(st, kind) ==
    LET built == buildCiphers(st.nextCipher)
    IN FlagEvent([st EXCEPT
           !.ciphers = [@ EXCEPT ![AeadSlot(kind)] = built.aead,
                                 ![HeaderSlot(kind)] = built.headerCipher],
           !.nextCipher = @ + 1])

\* ------------------------------------------------------------------ engine actions
Act(kind, arg) == [kind |-> kind, arg |-> arg]

\* The actions the engine may put next in a batch: it derives no more secrets
\* than the workload's budget, and its read level only advances.
EngineActions ==
    {Act("WaitForData", ""), Act("ReportError", ""), Act("ReportHandshakeSuccess", ""),
     Act("WriteToSocket", "")}
    \cup {Act("SecretAvailable", k) : k \in {x \in CipherKind : nextCipher <= CipherBudget}}
    \cup {Act("MutateState", l) :
            l \in {x \in EncryptionLevel : RankOf(x) > RankOf(readLevel)}}

\* An engine that was handed a buffer and took nothing answers that it waits
\* for data or that it failed.
Blocking(a) == a.kind \in {"WaitForData", "ReportError"}

\* processCryptoActions: the fixed dispatch over one action's variant.
ApplyAction(st, a) ==
    CASE a.kind = "WaitForData" -> [st EXCEPT !.waitForData = TRUE]
      [] a.kind = "SecretAvailable" -> computeCiphers(st, a.arg)
      [] a.kind = "ReportError" -> onError(st, EngineError)
      [] a.kind = "ReportHandshakeSuccess" ->
            onHandshakeDone([st EXCEPT !.handshakeDone = TRUE])
      [] a.kind = "MutateState" -> [st EXCEPT !.readLevel = a.arg]
      [] a.kind = "WriteToSocket" -> st

\* ------------------------------------------------------------------ Init
Init ==
    /\ workload \in {"feed", "keys", "late"}
    /\ initialized = FALSE
    /\ callback = FALSE
    /\ inHandshakeStack = FALSE
    /\ inProcessPendingEvents = FALSE
    /\ actionGuard = FALSE
    /\ error = NoError
    /\ waitForData = FALSE
    /\ handshakeEventAvailable = FALSE
    /\ handshakeDone = FALSE
    /\ ciphers = [s \in Slots |-> Empty]
    /\ initialReadBuf = <<>>
    /\ handshakeReadBuf = <<>>
    /\ appDataReadBuf = <<>>
    /\ pendingEvents = 0
    /\ readLevel = Initial
    /\ futures = 0
    /\ stack = <<>>
    /\ nextByte = 1
    /\ nextCipher = 1
    /\ fed = [b \in BufNames |-> <<>>]
    /\ consumed = [b \in BufNames |-> <<>>]
    /\ returned = [s \in GetterSlots |-> {}]
    /\ notified = FALSE
    /\ batchCause = "none"
    /\ lateBufs = {}
    /\ nestedBufs = {}
    /\ acceptSince = FALSE

\* ------------------------------------------------------------------ calls
\* A public operation is called by the transport from the connection's event
\* loop (empty stack) or by the application from inside its callback.
CanCall ==
    /\ initialized
    /\ \/ stack = <<>>
       \/ (stack # <<>> /\ Top.fn = "onCryptoEventAvailable")

\* a variant of CallProcessPendingEvents: without the test of the reentrancy flag
CallProcessPendingEventsAgain(stk) ==
    Append(stk, Frame("processPendingEvents", "loop", FALSE))

\* The call processPendingEvents() (lines 190-199): it returns at once when the
\* drain loop is already executing, else a frame enters the loop with
\* inProcessPendingEvents_ set.
CallProcessPendingEvents(stk) ==
    IF inProcessPendingEvents
    THEN stk
    ELSE Append(stk, Frame("processPendingEvents", "loop", FALSE))

\* startActions (lines 179-188): a future registers processActions as its
\* continuation; an immediate batch is applied inline.
startActions(stk, mustBlock, deferred) ==
    IF deferred
    THEN /\ futures' = futures + 1
         /\ stack' = stk
    ELSE /\ futures' = futures
         /\ stack' = Append(stk, Frame("processActions", "apply", mustBlock))

\* initialize (lines 29-35): one-time configuration before the handshake is driven.
initialize ==
    /\ ~initialized
    /\ stack = <<>>
    /\ initialized' = TRUE
    /\ \E cb \in BOOLEAN : callback' = cb
    /\ UNCHANGED <<workload, inHandshakeStack, inProcessPendingEvents, actionGuard,
                   error, waitForData, handshakeEventAvailable, handshakeDone, ciphers,
                   bufs, eng, stack, hist>>

\* a variant of AlreadyPending: addProcessingActions without its check
AlreadyPendingUnchecked == FALSE

\* if (actionGuard_) (line 170)
AlreadyPending == actionGuard

\* accept (lines 19-27) with processAccept, which hands the engine's answer to
\* addProcessingActions (lines 169-177).
accept ==
    /\ CanCall
    /\ inHandshakeStack' = TRUE
    /\ LET base == Append(stack, Frame("accept", "exit", FALSE))
       IN IF AlreadyPending
          THEN /\ Commit(onError(Cur, PendingError))
               /\ stack' = base
               /\ UNCHANGED <<actionGuard, futures, batchCause, acceptSince>>
          ELSE /\ actionGuard' = TRUE
               /\ batchCause' = "accept"
               /\ acceptSince' = (acceptSince \/ nestedBufs # {})
               /\ \E deferred \in BOOLEAN : startActions(base, FALSE, deferred)
               /\ Commit(Cur)
    /\ UNCHANGED <<workload, initialized, callback, inProcessPendingEvents, bufs,
                   pendingEvents, nextByte, fed, consumed, returned, notified,
                   lateBufs, nestedBufs>>

\* the switch of doHandshake (lines 45-58)
DoHandshakeBuf(level) ==
    CASE level = Initial -> "initial"
      [] level = Handshake -> "handshake"
      [] level = EarlyData -> "appData"
      [] level = AppData -> "appData"

\* a variant of AppendTo: the new data goes in front of the buffered bytes
AppendToFront(buf, data) == data \o buf

\* IOBufQueue::append (lines 47, 50, 54)
AppendTo(buf, data) == buf \o data

BufValue(name) ==
    CASE name = "initial" -> initialReadBuf
      [] name = "handshake" -> handshakeReadBuf
      [] OTHER -> appDataReadBuf

SetBuf(name, value) ==
    /\ initialReadBuf' = IF name = "initial" THEN value ELSE initialReadBuf
    /\ handshakeReadBuf' = IF name = "handshake" THEN value ELSE handshakeReadBuf
    /\ appDataReadBuf' = IF name = "appData" THEN value ELSE appDataReadBuf

\* doHandshake (lines 37-59), up to and including the call of the drain loop
doHandshake ==
    /\ CanCall
    /\ \E level \in EncryptionLevel, k \in 0..ByteBudget :
          /\ nextByte + k - 1 <= ByteBudget
          /\ LET data == [i \in 1..k |-> nextByte + i - 1]
                 b == DoHandshakeBuf(level)
             IN /\ SetBuf(b, AppendTo(BufValue(b), data))
                /\ fed' = [fed EXCEPT ![b] = @ \o data]
                /\ nextByte' = nextByte + k
                /\ lateBufs' = IF workload = "late" /\ futures > 0 /\ k > 0
                                THEN lateBufs \cup {b}
                                ELSE lateBufs
                /\ nestedBufs' = IF workload = "late" /\ inProcessPendingEvents /\ k > 0
                                  THEN nestedBufs \cup {b}
                                  ELSE nestedBufs
                /\ acceptSince' = IF workload = "late" /\ inProcessPendingEvents /\ k > 0
                                   THEN futures > 0
                                   ELSE acceptSince
    /\ inHandshakeStack' = TRUE
    /\ waitForData' = FALSE
    /\ stack' = CallProcessPendingEvents(
                    Append(stack, Frame("doHandshake", "exit", FALSE)))
    /\ inProcessPendingEvents' = TRUE
    /\ UNCHANGED <<workload, initialized, callback, actionGuard, error,
                   handshakeEventAvailable, handshakeDone, ciphers, eng, consumed,
                   returned, notified, batchCause>>

\* writeNewSessionTicket (lines 65-71), up to and including the call of the
\* drain loop; writeNewSessionTicketToCrypto queues the ticket as a crypto event.
writeNewSessionTicket ==
    /\ CanCall
    /\ pendingEvents < PendingBudget
    /\ inHandshakeStack' = TRUE
    /\ pendingEvents' = pendingEvents + 1
    /\ stack' = CallProcessPendingEvents(
                    Append(stack, Frame("writeNewSessionTicket", "exit", FALSE)))
    /\ inProcessPendingEvents' = TRUE
    /\ UNCHANGED <<workload, initialized, callback, actionGuard, error, waitForData,
                   handshakeEventAvailable, handshakeDone, ciphers, bufs, readLevel,
                   futures, nextCipher, hist>>

\* a variant of Thrown: the call returns normally whatever error_ holds
ThrownNothing == NoError

\* if (error_) throw (lines 60-62, 72-74): what a fallible call that reaches its
\* end throws; NoError is a normal return.
Thrown == error

\* if (error_) (lines 60, 72): doHandshake and writeNewSessionTicket, back from
\* the drain loop, throw the recorded error or go on to return normally.
checkError ==
    /\ stack # <<>>
    /\ Top.fn \in {"doHandshake", "writeNewSessionTicket"}
    /\ Top.pc = "exit"
    /\ stack' = SetTopPc(stack, IF Thrown # NoError THEN "throw" ELSE "return")
    /\ UNCHANGED <<ctl, bufs, eng, hist>>

\* a variant of InStackAfterExit: the flag is left as the call set it
InStackLeftSet == inHandshakeStack

\* SCOPE_EXIT { inHandshakeStack_ = false; } (lines 21-23, 40-42, 66-68)
InStackAfterExit == FALSE

\* The end of accept, doHandshake and writeNewSessionTicket: SCOPE_EXIT resets
\* inHandshakeStack_ on every path, thrown error or not.
returnFromCall ==
    /\ stack # <<>>
    /\ \/ Top.fn = "accept"
       \/ /\ Top.fn \in {"doHandshake", "writeNewSessionTicket"}
          /\ Top.pc \in {"throw", "return"}
    /\ inHandshakeStack' = InStackAfterExit
    /\ stack' = Pop(stack)
    /\ UNCHANGED <<workload, initialized, callback, inProcessPendingEvents,
                   actionGuard, error, waitForData, handshakeEventAvailable,
                   handshakeDone, ciphers, bufs, eng, hist>>

\* ------------------------------------------------------------------ drain loop
\* a variant of LoopCond: the loop does not look at error_
LoopCondIgnoringError == ~actionGuard

\* while (!actionGuard_ && !error_) (line 201)
LoopCond == ~actionGuard /\ error = NoError

\* a variant of ReadBufOf: the loop always hands over the Initial buffer
ReadBufInitialOnly(level) == "initial"

\* the switch over getReadRecordLayerEncryptionLevel() (lines 204-219)
ReadBufOf(level) ==
    CASE level = Initial -> "initial"
      [] level = Handshake -> "handshake"
      [] level = EarlyData -> "appData"
      [] level = AppData -> "appData"

InLoop == stack # <<>> /\ Top.fn = "processPendingEvents"

\* One iteration with waitForData_ clear (lines 202-219): the buffer of the
\* engine's read level is handed to the engine, which takes a prefix of it and
\* answers with an immediate batch or a future.  An engine that takes nothing
\* answers at once, with a batch that blocks.
processSocketData ==
    /\ InLoop
    /\ LoopCond
    /\ ~waitForData
    /\ actionGuard' = TRUE
    /\ LET b == ReadBufOf(readLevel)
           buf == BufValue(b)
       IN \E k \in 0..Len(buf), deferred \in BOOLEAN :
             /\ k = 0 => ~deferred
             /\ SetBuf(b, SubSeq(buf, k + 1, Len(buf)))
             /\ consumed' = [consumed EXCEPT ![b] = @ \o SubSeq(buf, 1, k)]
             /\ lateBufs' = lateBufs \ {b}
             /\ nestedBufs' = {}
             /\ acceptSince' = FALSE
             /\ batchCause' = IF k = 0 THEN "none" ELSE "doHandshake"
             /\ startActions(stack, k = 0, deferred)
    /\ UNCHANGED <<workload, initialized, callback, inHandshakeStack,
                   inProcessPendingEvents, error, waitForData, handshakeEventAvailable,
                   handshakeDone, ciphers, pendingEvents, readLevel, nextCipher,
                   nextByte, fed, returned, notified>>

\* One iteration with waitForData_ set and a crypto event queued (line 220):
\* processPendingCryptoEvent takes the event and starts the engine on it.
processPendingCryptoEvent ==
    /\ InLoop
    /\ LoopCond
    /\ waitForData
    /\ pendingEvents > 0
    /\ actionGuard' = TRUE
    /\ pendingEvents' = pendingEvents - 1
    /\ batchCause' = "writeNewSessionTicket"
    /\ \E deferred \in BOOLEAN : startActions(stack, FALSE, deferred)
    /\ UNCHANGED <<workload, initialized, callback, inHandshakeStack,
                   inProcessPendingEvents, error, waitForData, handshakeEventAvailable,
                   handshakeDone, ciphers, bufs, readLevel, nextCipher, nextByte, fed,
                   consumed, returned, notified, lateBufs, nestedBufs, acceptSince>>

\* SCOPE_EXIT { inProcessPendingEvents_ = false; } (lines 197-199)
InLoopAfterExit == FALSE

\* a variant of GuardAfterBlocked: the guard taken at line 202 is kept
GuardAfterBlockedKept == TRUE

\* actionGuard_ = DestructorGuard(nullptr) (line 221)
GuardAfterBlocked == FALSE

\* a variant of blockedReturn: the loop releases the guard and goes round again
blockedContinue ==
    /\ stack # <<>> /\ Top.fn = "processPendingEvents"
    /\ ~actionGuard /\ error = NoError
    /\ waitForData
    /\ pendingEvents = 0
    /\ actionGuard' = FALSE
    /\ UNCHANGED <<workload, initialized, callback, inHandshakeStack,
                   inProcessPendingEvents, error, waitForData, handshakeEventAvailable,
                   handshakeDone, ciphers, bufs, eng, stack, hist>>

\* The iteration that finds the engine blocked and nothing to resume (lines
\* 220-223): the guard just taken is released and the loop returns.
blockedReturn ==
    /\ InLoop
    /\ LoopCond
    /\ waitForData
    /\ pendingEvents = 0
    /\ actionGuard' = GuardAfterBlocked
    /\ inProcessPendingEvents' = InLoopAfterExit
    /\ stack' = Pop(stack)
    /\ UNCHANGED <<workload, initialized, callback, inHandshakeStack, error,
                   waitForData, handshakeEventAvailable, handshakeDone, ciphers, bufs,
                   eng, hist>>

\* The loop condition fails (line 201): the loop ends and SCOPE_EXIT resets
\* inProcessPendingEvents_.
loopExit ==
    /\ InLoop
    /\ ~LoopCond
    /\ inProcessPendingEvents' = InLoopAfterExit
    /\ stack' = Pop(stack)
    /\ UNCHANGED <<workload, initialized, callback, inHandshakeStack, actionGuard,
                   error, waitForData, handshakeEventAvailable, handshakeDone, ciphers,
                   bufs, eng, hist>>

\* ------------------------------------------------------------------ processActions
InProcessActions(pc) ==
    stack # <<>> /\ Top.fn = "processActions" /\ Top.pc = pc

\* processCryptoActions (line 233): the next action of the batch is applied.
applyAction ==
    /\ InProcessActions("apply")
    /\ \E a \in EngineActions :
          /\ Commit(ApplyAction(Cur, a))
          /\ stack' = [stack EXCEPT ![Len(stack)].mustBlock = @ /\ ~Blocking(a)]
    /\ UNCHANGED <<workload, initialized, callback, inHandshakeStack,
                   inProcessPendingEvents, actionGuard, bufs, pendingEvents, futures,
                   nextByte, fed, consumed, returned, notified, batchCause,
                   lateBufs, nestedBufs, acceptSince>>

\* variants of CallbackGate: without the in-stack test, without the null test
CallbackGateInStack == callback /\ handshakeEventAvailable
CallbackGateNoNullTest == ~inHandshakeStack /\ handshakeEventAvailable

\* if (callback_ && !inHandshakeStack_ && handshakeEventAvailable_) (line 236)
CallbackGate == callback /\ ~inHandshakeStack /\ handshakeEventAvailable

\* a variant of GuardAfterActions: the in-flight marker is kept
GuardAfterActionsKept == actionGuard

\* actionGuard_ = DestructorGuard(nullptr) (line 235)
GuardAfterActions == FALSE

\* Lines 235-238, once the whole batch is applied: the in-flight marker is
\* released, then the gate decides whether the application callback is invoked.
releaseAndNotify ==
    /\ InProcessActions("apply")
    /\ ~Top.mustBlock
    /\ actionGuard' = GuardAfterActions
    /\ batchCause' = "none"
    /\ IF CallbackGate
       THEN /\ stack' = Append(SetTopPc(stack, "clear"),
                               Frame("onCryptoEventAvailable", "run", FALSE))
            /\ notified' = TRUE
       ELSE /\ stack' = SetTopPc(stack, "clear")
            /\ UNCHANGED notified
    /\ UNCHANGED <<workload, initialized, callback, inHandshakeStack,
                   inProcessPendingEvents, error, waitForData, handshakeEventAvailable,
                   handshakeDone, ciphers, bufs, eng, nextByte, fed, consumed,
                   returned, lateBufs, nestedBufs, acceptSince>>

\* a variant of EventFlagAfterCompletion: the flag is left as it is
EventFlagKept(flag) == flag

\* handshakeEventAvailable_ = false (line 239): the flag after a completion
EventFlagAfterCompletion(flag) == FALSE

\* Lines 239-240: the event flag is cleared and the drain loop is called again.
clearAndDrain ==
    /\ InProcessActions("clear")
    /\ handshakeEventAvailable' = EventFlagAfterCompletion(handshakeEventAvailable)
    /\ notified' = (handshakeEventAvailable' /\ notified)
    /\ stack' = CallProcessPendingEvents(SetTopPc(stack, "return"))
    /\ inProcessPendingEvents' = TRUE
    /\ UNCHANGED <<workload, initialized, callback, inHandshakeStack, actionGuard,
                   error, waitForData, handshakeDone, ciphers, bufs, eng, nextByte,
                   fed, consumed, returned, batchCause, lateBufs, nestedBufs, acceptSince>>

\* processActions returns (line 241).
actionsReturn ==
    /\ InProcessActions("return")
    /\ stack' = Pop(stack)
    /\ UNCHANGED <<ctl, bufs, eng, hist>>

\* The application's callback returns.
callbackReturn ==
    /\ stack # <<>>
    /\ Top.fn = "onCryptoEventAvailable"
    /\ stack' = Pop(stack)
    /\ UNCHANGED <<ctl, bufs, eng, hist>>

\* A deferred batch completes on the connection's execution context and its
\* continuation, processActions, runs (line 183).
deferredCompletion ==
    /\ stack = <<>>
    /\ futures > 0
    /\ futures' = futures - 1
    /\ stack' = <<Frame("processActions", "apply", FALSE)>>
    /\ UNCHANGED <<ctl, bufs, pendingEvents, readLevel, nextCipher, hist>>

\* ------------------------------------------------------------------ getters, cancel
\* a variant of SlotAfterGet: the getter copies the pointer and keeps the slot
SlotAfterGetCopied(c) == c

\* return std::move(slot) (lines 81, 88, ...): what the slot holds afterwards
SlotAfterGet(c) == Empty

\* The eight cipher getters (lines 77-135): with error_ set the getter throws
\* and leaves its slot alone.
getCipher ==
    /\ CanCall
    /\ \E s \in GetterSlots :
          IF error # NoError
          THEN UNCHANGED <<ciphers, returned>>
          ELSE /\ ciphers' = [ciphers EXCEPT ![s] = SlotAfterGet(ciphers[s])]
               /\ returned' = [returned EXCEPT ![s] =
                                 IF ciphers[s] = Empty THEN @ ELSE @ \cup {ciphers[s]}]
    /\ UNCHANGED <<workload, initialized, callback, inHandshakeStack,
                   inProcessPendingEvents, actionGuard, error, waitForData,
                   handshakeEventAvailable, handshakeDone, bufs, eng, stack, nextByte,
                   fed, consumed, notified, batchCause, lateBufs, nestedBufs, acceptSince>>

\* callback_ = nullptr (line 142)
CallbackAfterCancel == FALSE

\* cancel (lines 141-143)
cancel ==
    /\ CanCall
    /\ callback' = CallbackAfterCancel
    /\ UNCHANGED <<workload, initialized, inHandshakeStack, inProcessPendingEvents,
                   actionGuard, error, waitForData, handshakeEventAvailable,
                   handshakeDone, ciphers, bufs, eng, stack, hist>>

\* ------------------------------------------------------------------ accessors
\* isCancelled (lines 274-276)
isCancelled == ~callback

\* a variant of isHandshakeDone: the accessor answers false once error_ is set
isHandshakeDoneUnlessError == handshakeDone /\ error = NoError

\* isHandshakeDone (lines 154-156)
isHandshakeDone == handshakeDone

\* ------------------------------------------------------------------ specification
Next ==
    \/ initialize
    \/ accept
    \/ doHandshake
    \/ writeNewSessionTicket
    \/ checkError
    \/ returnFromCall
    \/ processSocketData
    \/ processPendingCryptoEvent
    \/ blockedReturn
    \/ loopExit
    \/ applyAction
    \/ releaseAndNotify
    \/ clearAndDrain
    \/ actionsReturn
    \/ callbackReturn
    \/ deferredCompletion
    \/ getCipher
    \/ cancel

Spec == Init /\ [][Next]_vars

\* The steps the code takes by itself once it has been called: a call, the
\* drain loop and processActions run to their end on the connection's thread.
\* What the application and the engine's deferred completions do is not forced.
CodeStep ==
    \/ checkError
    \/ returnFromCall
    \/ processSocketData
    \/ processPendingCryptoEvent
    \/ blockedReturn
    \/ loopExit
    \/ applyAction
    \/ releaseAndNotify
    \/ clearAndDrain
    \/ actionsReturn

\* The "late" workload alone, with the code running to completion.
LiveInit == Init /\ workload = "late"

LiveSpec == LiveInit /\ [][Next]_vars /\ WF_vars(CodeStep)


\* ------------------------------------------------------------------ observations
PublicCalls == {"accept", "doHandshake", "writeNewSessionTicket"}

\* batches the engine was started on that processActions has not yet applied
InFlight ==
    futures
    + Cardinality({i \in DOMAIN stack :
                     stack[i].fn = "processActions" /\ stack[i].pc = "apply"})

Quiescent == stack = <<>> /\ futures = 0

\* this step calls fn
Called(fn) == Len(stack') > Len(stack) /\ stack'[Len(stack) + 1].fn = fn

\* this step invokes callback_->onCryptoEventAvailable()
CallbackInvoked ==
    Len(stack') = Len(stack) + 1 /\ stack'[Len(stack')].fn = "onCryptoEventAvailable"

IsPrefix(p, q) == Len(p) <= Len(q) /\ SubSeq(q, 1, Len(p)) = p

\* DestructorGuard dg(conn_) at the top of processPendingEvents (line 195): the
\* frame of an executing drain loop holds the connection
LoopGuardHeld == TRUE

\* a variant of ActionsGuardHeld: processActions without its own guard
ActionsGuardMissing == FALSE

\* DestructorGuard dg(conn_) at the top of processActions (line 231)
ActionsGuardHeld == TRUE

\* the reference-counted holds on the connection: actionGuard_ (lines 175, 202)
\* and the dg of every executing processPendingEvents and processActions
Holds ==
    (IF actionGuard THEN 1 ELSE 0)
    + Cardinality({i \in DOMAIN stack :
                     stack[i].fn = "processPendingEvents" /\ LoopGuardHeld})
    + Cardinality({i \in DOMAIN stack :
                     stack[i].fn = "processActions" /\ ActionsGuardHeld})

\* ------------------------------------------------------------------ claims
\* C1: at most one engine action batch is in flight in every reachable state:
\* no batch is started while an earlier one is not yet applied, and the in-flight
\* marker is held for as long as one is in flight.
C1_AtMostOneInFlight == InFlight <= 1 /\ (InFlight = 1 => actionGuard)

\* accept was called while a deferred batch is in flight, and was rejected
C1_Witness ==
    /\ stack # <<>>
    /\ Top.fn = "accept"
    /\ futures = 1
    /\ error = PendingError


\* C2: when addProcessingActions is called while an action is in flight (accept
\* during a deferred batch), the second batch is neither started nor queued, the
\* error ("Processing action while pending", INTERNAL_ERROR) is recorded and the
\* in-flight marker stays; the original batch still completes: its processActions
\* releases the marker, so the marker is never left held once nothing is
\* outstanding.
C2_SecondBatchRejected ==
    /\ [](Quiescent => ~actionGuard)
    /\ [][/\ (Called("accept") /\ actionGuard) =>
                /\ error' = PendingError
                /\ actionGuard'
                /\ futures' = futures
                /\ pendingEvents' = pendingEvents
                /\ stack' = Append(stack, Frame("accept", "exit", FALSE))
          /\ (InProcessActions("apply") /\ stack'[Len(stack)].pc = "clear") =>
                ~actionGuard'
         ]_vars

\* a deferred completion has applied its batch and released the marker with the
\* rejection's error on record
C2_Witness ==
    /\ Len(stack) = 1
    /\ InProcessActions("clear")
    /\ error = PendingError
    /\ ~actionGuard
    /\ futures = 0

\* C3: per read buffer, the bytes the engine has taken followed by the bytes
\* still buffered are exactly the bytes doHandshake appended, in append order:
\* the engine sees every byte once, in order, whatever it leaves unconsumed.
C3_FifoPerLevel ==
    \A b \in BufNames : consumed[b] \o BufValue(b) = fed[b]

\* two bytes were appended to one buffer; the engine took the first and left
\* the second at the front
C3_Witness ==
    \E b \in BufNames : consumed[b] = <<1>> /\ BufValue(b) = <<2>>

\* C4: once error_ is set, the recorded (message, code) pair is never cleared and
\* never replaced by a different one, whatever calls and engine completions
\* follow.
C4_ErrorNeverReplaced == [][error # NoError => error' = error]_vars

\* a step of the drain loop that hands work to the engine
StartsBatchFromLoop == processSocketData \/ processPendingCryptoEvent

\* C5 (as stated): once error_ is set no batch is started for the engine and no
\* action of any batch is applied to the controller's state.
C5_NothingProcessedAfterError ==
    [][error # NoError =>
          ~(StartsBatchFromLoop \/ applyAction \/ (Called("accept") /\ ~actionGuard))
      ]_vars

\* C5 (amended): once error_ is set the drain loop hands no further work to the
\* engine, so the marker is never taken and no future is created from the loop;
\* batches already produced, a deferred batch in flight and a batch started by
\* accept are outside this guarantee and are still applied in full.
C5_LoopStartsNoBatchAfterError ==
    [][error # NoError =>
          /\ ~StartsBatchFromLoop
          /\ InLoop => (actionGuard' = actionGuard /\ futures' = futures
                           /\ pendingEvents' = pendingEvents)
      ]_vars

\* the drain loop runs with the error on record, the engine blocked and a
\* crypto event queued that it would otherwise resume
C5_Witness ==
    /\ error # NoError
    /\ InLoop
    /\ ~actionGuard
    /\ waitForData
    /\ pendingEvents > 0

\* C6: once error_ is set no buffered byte is consumed: the engine is handed no
\* buffer, and the buffers only grow at their tail by what later doHandshake
\* calls append.
C6_NoConsumptionAfterError ==
    [][error # NoError =>
          /\ consumed' = consumed
          /\ IsPrefix(initialReadBuf, initialReadBuf')
          /\ IsPrefix(handshakeReadBuf, handshakeReadBuf')
          /\ IsPrefix(appDataReadBuf, appDataReadBuf')
      ]_vars

\* the drain loop runs with the error on record while bytes for the engine's
\* read level are buffered and the engine is not blocked
C6_Witness ==
    /\ error # NoError
    /\ InLoop
    /\ ~actionGuard
    /\ ~waitForData
    /\ BufValue(ReadBufOf(readLevel)) # <<>>

\* a top-level accept, doHandshake or writeNewSessionTicket call is on the stack
PublicCallOnStack == \E i \in DOMAIN stack : stack[i].fn \in PublicCalls

\* C7: onCryptoEventAvailable is never invoked while a top-level accept,
\* doHandshake or writeNewSessionTicket call is on the stack (inHandshakeStack_
\* is false at every invocation), and at most once per event-available cycle:
\* it is not invoked again before the flag was cleared and set again.
C7_CallbackOutsideStackOncePerCycle ==
    /\ [](PublicCallOnStack => inHandshakeStack)
    /\ [][CallbackInvoked =>
             /\ ~inHandshakeStack
             /\ ~PublicCallOnStack
             /\ handshakeEventAvailable
             /\ ~notified
         ]_vars

\* the callback is running, invoked by a completion outside any top-level call
C7_Witness ==
    /\ stack # <<>>
    /\ Top.fn = "onCryptoEventAvailable"
    /\ notified
    /\ ~inHandshakeStack

\* C8 (as stated): an event flagged while a top-level call is on the stack and a
\* callback is registered is kept until the callback is invoked for it: the flag
\* is not cleared without an invocation.
C8_EventDeferredNotDropped ==
    [][(handshakeEventAvailable /\ inHandshakeStack /\ callback) =>
          (handshakeEventAvailable' \/ CallbackInvoked)]_vars

\* C8 (amended): a batch applied while a top-level call is on the stack never
\* invokes the callback, and processActions clears the event flag all the same:
\* the notification for the events of that batch is suppressed, not postponed.
C8_EventSuppressedInStack ==
    [][(stack # <<>> /\ Top.fn = "processActions" /\ inHandshakeStack) =>
          /\ ~CallbackInvoked
          /\ Top.pc = "clear" => ~handshakeEventAvailable'
      ]_vars

\* processActions, run inside a top-level call with a callback registered and an
\* event flagged, has passed the gate without invoking the callback
C8_Witness ==
    /\ InProcessActions("clear")
    /\ inHandshakeStack
    /\ callback
    /\ handshakeEventAvailable

\* C9: once callback_ is null (cancel has returned) it stays null and no
\* completion invokes the callback, while completions are still applied: a
\* derived cipher pair is installed in its slots and the in-flight marker is
\* released when the batch is done.
C9_CancelSilencesCallback ==
    [][(initialized /\ isCancelled) =>
          /\ isCancelled'
          /\ ~CallbackInvoked
          /\ nextCipher' > nextCipher =>
                \E k \in CipherKind : /\ ciphers'[AeadSlot(k)] = nextCipher
                                      /\ ciphers'[HeaderSlot(k)] = nextCipher
          /\ (InProcessActions("apply") /\ stack'[Len(stack)].pc = "clear") =>
                ~actionGuard'
      ]_vars

\* with the callback detached, a completion outside any top-level call has
\* installed a cipher pair, released the marker and passed the gate with the
\* event flagged
C9_Witness ==
    /\ initialized
    /\ isCancelled
    /\ Len(stack) = 1
    /\ InProcessActions("clear")
    /\ ~inHandshakeStack
    /\ handshakeEventAvailable
    /\ ~actionGuard
    /\ nextCipher > 1

\* C10: a cipher slot yields an installed cipher at most once: the getter that
\* returns a cipher leaves its slot empty, so no slot ever holds a cipher that
\* its getter has already returned.
C10_SlotYieldsOnce ==
    /\ [](\A s \in GetterSlots : ciphers[s] # Empty => ciphers[s] \notin returned[s])
    /\ [][\A s \in GetterSlots :
             returned'[s] # returned[s] => ciphers'[s] = Empty]_vars

\* a getter has returned the installed cipher and its slot is empty
C10_Witness ==
    \E s \in GetterSlots : returned[s] # {} /\ ciphers[s] = Empty

\* the calls that end with the test of error_
FeedCalls == {"doHandshake", "writeNewSessionTicket"}

\* C11 (as stated): when a batch that processes the input of a doHandshake or
\* writeNewSessionTicket call records an error, that call is still on the stack
\* (so that it throws the error), whether the batch was immediate or deferred.
C11_ErrorThrownBySameCall ==
    [][(/\ InProcessActions("apply")
        /\ batchCause \in FeedCalls
        /\ error = NoError
        /\ error' # NoError) =>
          \E i \in DOMAIN stack : stack[i].fn = batchCause]_vars

\* C11 (amended): doHandshake and writeNewSessionTicket throw exactly when
\* error_ is set at the moment their drain-loop call has returned: an error
\* recorded while the call is on the stack is never cleared before that test,
\* so the call throws it; the call returns normally only with error_ empty.
C11_ThrowsWhatIsRecordedAtReturn ==
    /\ [](\A i \in DOMAIN stack :
            stack[i].fn \in FeedCalls =>
               /\ stack[i].pc = "throw" => error # NoError
               /\ stack[i].pc = "return" => error = NoError)
    /\ [][((\E i \in DOMAIN stack : stack[i].fn \in FeedCalls) /\ error # NoError)
             => error' # NoError]_vars

\* an immediate batch, applied inside the doHandshake call whose bytes it
\* processes, has recorded the engine's error
C11_Witness ==
    /\ InProcessActions("apply")
    /\ batchCause = "doHandshake"
    /\ stack[1].fn = "doHandshake"
    /\ error = EngineError

\* C12: while a batch is in flight, while a drain loop executes and during the
\* whole of processActions (the gap between releasing the marker and
\* re-entering the drain loop included) at least one hold on the connection
\* exists.
C12_ConnectionHeldWhileProcessing ==
    (\/ InFlight >= 1
     \/ \E i \in DOMAIN stack : stack[i].fn \in {"processPendingEvents", "processActions"})
       => Holds >= 1

\* a deferred completion is in the gap: the marker is released, the drain loop
\* not yet re-entered, and the dg of processActions is the only hold
C12_Witness ==
    /\ Len(stack) = 1
    /\ InProcessActions("clear")
    /\ ~actionGuard
    /\ Holds = 1

\* the drain loop is executing
LoopOnStack == \E i \in DOMAIN stack : stack[i].fn = "processPendingEvents"

\* C13: the reentrancy flags are transient: with no accept, doHandshake or
\* writeNewSessionTicket call on the stack inHandshakeStack_ is false, and with
\* no drain loop executing inProcessPendingEvents_ is false, after every exit
\* (normal return, thrown error, early return of the loop).
C13_FlagsTransient ==
    /\ ~PublicCallOnStack => ~inHandshakeStack
    /\ ~LoopOnStack => ~inProcessPendingEvents

\* a call has left the drain loop, which reset its flag, and is about to exit
\* by throwing, its own flag still set
C13_Witness ==
    /\ stack # <<>>
    /\ Top.fn \in FeedCalls
    /\ Top.pc = "throw"
    /\ inHandshakeStack
    /\ ~inProcessPendingEvents

\* C14: isHandshakeDone() is false until the handshake is driven, becomes true
\* only when an applied engine action reports handshake completion (which also
\* flags an event), and once true stays true through every later operation,
\* completion and error.
C14_HandshakeDoneSticky ==
    /\ [](~initialized => ~isHandshakeDone)
    /\ [][isHandshakeDone => isHandshakeDone']_vars
    /\ [][(~isHandshakeDone /\ isHandshakeDone') =>
             (InProcessActions("apply") /\ handshakeEventAvailable')]_vars

\* the handshake was reported done and an error is on record: the accessor
\* still answers true
C14_Witness ==
    /\ isHandshakeDone
    /\ error # NoError
    /\ Quiescent

\* C15: bytes fed while a deferred batch is in flight are not stalled: once
\* that batch has completed without error and processing has come to rest, the
\* buffer holding them, if it is the one of the engine's read level, has been
\* handed to the engine, with no further doHandshake call.
C15_LateBytesNotStalled ==
    (Quiescent /\ error = NoError) => ReadBufOf(readLevel) \notin lateBufs

\* C16: a drain loop that finds the engine blocked (waitForData_ set) with no
\* crypto event to resume releases the marker and returns without recording
\* an error; so whenever no call is on the stack and no deferred batch is
\* outstanding the marker is empty, and a doHandshake called then enters the
\* drain loop with the loop condition true.
C16_BlockedLoopReleasesMarker ==
    /\ [](Quiescent => ~actionGuard)
    /\ [][/\ (InLoop /\ LoopCond /\ waitForData /\ pendingEvents = 0) =>
                /\ ~actionGuard'
                /\ error' = error
                /\ stack' = Pop(stack)
                /\ ~inProcessPendingEvents'
          /\ (Quiescent /\ error = NoError /\ Called("doHandshake")) =>
                /\ stack'[Len(stack')].fn = "processPendingEvents"
                /\ ~waitForData'
                /\ ~actionGuard'
         ]_vars

\* doHandshake is back from a drain loop that an immediate batch had blocked:
\* no error, nothing outstanding, the marker empty
C16_Witness ==
    /\ stack # <<>>
    /\ Top.fn = "doHandshake"
    /\ Top.pc = "exit"
    /\ waitForData
    /\ ~actionGuard
    /\ futures = 0
    /\ error = NoError

\* C17: the drain loop does no iteration while an action is in flight or an
\* error is set, and every top-level accept, doHandshake and
\* writeNewSessionTicket call eventually returns.
C17_CallsReturn ==
    /\ [][StartsBatchFromLoop => (~actionGuard /\ error = NoError)]_vars
    /\ PublicCallOnStack ~> ~PublicCallOnStack

\* inside a doHandshake call the drain loop has found the engine blocked with
\* nothing to resume and is about to return
C17_Witness ==
    /\ InLoop
    /\ stack[1].fn = "doHandshake"
    /\ LoopCond
    /\ waitForData
    /\ pendingEvents = 0
    /\ BufValue(ReadBufOf(readLevel)) # <<>>

\* the application's callback is running, innermost
InCallback == stack # <<>> /\ Top.fn = "onCryptoEventAvailable"

\* the cipher pair built last is in its slots, or its getter has handed it out
NewestCipherInPlace ==
    nextCipher > 1 =>
       \E k \in CipherKind :
          \A s \in {AeadSlot(k), HeaderSlot(k)} :
             \/ ciphers[s] = nextCipher - 1
             \/ s \in GetterSlots /\ (nextCipher - 1) \in returned[s]

LevelBuffer ==
    [l \in EncryptionLevel |->
        IF l = Initial THEN "initial" ELSE IF l = Handshake THEN "handshake" ELSE "appData"]

\* C19: a drain-loop iteration takes bytes only from the buffer of the engine's
\* expected read level and leaves the other buffers as they are, whatever the
\* arrival order across levels; doHandshake appends to the buffer of the level
\* it is given and to no other, EarlyData and AppData sharing one buffer.
C19_OnlyExpectedLevelBuffer ==
    /\ [](\A l \in EncryptionLevel : DoHandshakeBuf(l) = LevelBuffer[l])
    /\ [][/\ InLoop =>
               \A b \in BufNames \ {LevelBuffer[readLevel]} :
                  consumed'[b] = consumed[b] /\ BufValue(b)' = BufValue(b)
          /\ Called("doHandshake") =>
               \E b \in BufNames :
                  /\ IsPrefix(BufValue(b), BufValue(b)')
                  /\ \A c \in BufNames \ {b} :
                        fed'[c] = fed[c] /\ BufValue(c)' = BufValue(c)
         ]_vars

\* a Handshake byte arrived first and is still buffered; the engine, reading
\* at level Initial, has taken the Initial byte that arrived after it
C19_Witness ==
    /\ handshakeReadBuf = <<1>>
    /\ consumed["initial"] = <<2>>
    /\ consumed["handshake"] = <<>>

\* the executing drain loops
LoopFrames == {i \in DOMAIN stack : stack[i].fn = "processPendingEvents"}

\* the drain loop is back in control with its condition true, and the buffer of
\* the engine's read level holds bytes fed while the loop was executing
NestedBytesWaiting ==
    InLoop /\ LoopCond /\ LevelBuffer[readLevel] \in nestedBufs

====
